---- MODULE Spec2Model ----
(***************************************************************************)
(* Model of the logo tooling of hard-feelings-tacos:                       *)
(*   - LogoExtractor (extract_logos.py): the extraction pipeline, one      *)
(*     action per external tool call or per stage boundary;                *)
(*   - LogoReplacer / HardFeelingsLogoReplacer: replace_logos_in_file.     *)
(* File names are sequences of tokens joined by "_" (extension .png is     *)
(* implicit), so that glob patterns and str.replace act on the names.      *)
(* File operations other than the external tool calls are taken to succeed *)
(* (images/ exists, html files are readable and writable).                 *)
(***************************************************************************)
EXTENDS Integers, Sequences, FiniteSets, TLC

VARIABLES
  pdfExists,   \* os.path.exists(self.pdf_path)
  dirs,        \* pages/, processed/, final/ directories exist
  pages,       \* file names in pages/
  processed,   \* processed/ : file name -> content
  final,       \* final/ : file name -> content
  images,      \* images/ : published file name -> content
  pc,          \* position of the running process
  result,      \* outcome of run_extraction: "none", "True", "False", "raised"
  runs,        \* number of processes started so far
  faults,      \* number of crop/resize/invert failures so far
  tried,       \* strategies invoked by extract_pdf_pages in this run, with outcome
  logo_regions,  \* pages listed by detect_logo_regions in this run
  stages,      \* stages entered in this run
  cropRes,     \* outcome of each crop call of this run
  resizeRes,   \* outcome of each resize call of this run
  invRes,      \* outcome of each invert call of this run
  copied,      \* published path -> final/ file copied there in this run
  snap,        \* the filesystem when this run's process started
  runClean,    \* no tool failure in this run so far
  prevClean,   \* the previous run returned True without any tool failure
  htmlExists,  \* os.path.exists(file_path)
  html,        \* content of the file, a sequence of characters
  lastOp,      \* the replacer last applied to the file ("none" at first)
  prevOp,      \* the replacer applied before that
  lastRes,     \* what the last replace_logos_in_file returned
  wrote,       \* the last replace_logos_in_file wrote the file
  prevWrote,   \* the application before that wrote the file
  beforeExists,\* the file existed before the last application
  before,      \* content of the file before the last application
  cssExists,   \* os.path.exists(css_file)
  css,         \* content of the stylesheet, a sequence of characters
  cssOp,       \* the replacer whose update_css_styles ran last ("none" at first)
  cssWrote,    \* the last update_css_styles wrote the stylesheet
  cssBefore,   \* content of the stylesheet before the last update_css_styles
  cssOps       \* number of update_css_styles invocations so far

extractVars == <<pdfExists, dirs, pages, processed, final, images, pc, result,
                 runs, faults, tried, logo_regions, stages, cropRes,
                 resizeRes, invRes, copied, snap, runClean, prevClean>>

replVars == <<htmlExists, html, lastOp, prevOp, lastRes, wrote, prevWrote,
              beforeExists, before>>

cssVars == <<cssExists, css, cssOp, cssWrote, cssBefore, cssOps>>

vars == <<extractVars, replVars, cssVars>>

----------------------------------------------------------------------------
(* Bounds *)
MaxPages == 1     \* pages of the source document
MaxRuns == 2      \* processes run one after the other on the same tree
MaxFaults == 1    \* crop/resize/invert failures injected over a behaviour

----------------------------------------------------------------------------
(* Generic helpers *)
EmptyMap == [x \in {} |-> x]

Put(f, k, v) == (k :> v) @@ f

Last(s) == s[Len(s)]

PageNames == <<"page1.png", "page2.png", "page3.png">>

DocPages == {PageNames[k] : k \in 1..MaxPages}

\* Outcome of one subprocess.run: exit status zero ("ok"), non-zero exit
\* status ("fail"), or the invocation itself raising ("raise": OSError, e.g.
\* the tool is not installed).

\* A loop over a directory listing with one try/except CalledProcessError per
\* tool call.  G is the set of outer items, each the sequence of its calls in
\* order; the outer items come in listing order, which is arbitrary.  A run
\* of the loop is the map from the calls issued to their outcomes: either
\* every call is issued and none raises, or one call raises something other
\* than CalledProcessError and the loop is left there.  n is the number of
\* failures still available.
Items(g) == {g[k] : k \in 1..Len(g)}

AllItems(G) == UNION {Items(g) : g \in G}

FailSets(S, n) == {F \in SUBSET S : Cardinality(F) <= n}

CompleteRuns(G, n) ==
  {[it \in AllItems(G) |-> IF it \in F THEN "fail" ELSE "ok"] :
     F \in FailSets(AllItems(G), n)}

AbortedRuns(G, n) ==
  UNION {UNION {UNION {
    LET issued == AllItems(B) \cup {g[j] : j \in 1..(k - 1)} IN
    {[it \in issued \cup {g[k]} |->
        IF it = g[k] THEN "raise" ELSE IF it \in F THEN "fail" ELSE "ok"] :
       F \in FailSets(issued, n - 1)}
    : B \in SUBSET (G \ {g})} : k \in 1..Len(g)} : g \in G}

LoopRuns(G, n) == CompleteRuns(G, n) \cup (IF n >= 1 THEN AbortedRuns(G, n) ELSE {})

Failed(res) == Cardinality({it \in DOMAIN res : res[it] # "ok"})

Escaped(res) == \E it \in DOMAIN res : res[it] = "raise"

\* the directory after the files of the map written have been written
WriteAll(dir, written) == written @@ dir

----------------------------------------------------------------------------
(* extract_pdf_pages *)
\* faulty variant, for sensitivity: the two subprocess strategies listed in the other order
methods_swapped == <<"sips", "qlmanage", "preview">>

methods == <<"qlmanage", "sips", "preview">>

\* what a strategy can do: the two subprocess strategies return
\* returncode == 0 or raise; _extract_with_preview returns False
MethodOuts(m) == IF m = "preview" THEN {"fail"} ELSE {"ok", "fail", "raise"}

\* faulty variant, for sensitivity: run_extraction ignores the result of extract_pdf_pages
AfterExtract_ignored(ok) == "detect"

\* run_extraction: if not self.extract_pdf_pages(): return False
AfterExtract(ok) == IF ok THEN "detect" ELSE "return_false"

----------------------------------------------------------------------------
(* detect_logo_regions: the placeholder regions of every page *)
Regions == << [x |-> 100, y |-> 100, width |-> 300, height |-> 100, type |-> "main_logo"],
              [x |-> 200, y |-> 300, width |-> 150, height |-> 150, type |-> "icon"] >>

IdxTok == <<"0", "1">>

\* f"{page_data['page']}_logo_{i}_{region['type']}.png"
CropName(page, i) == <<page, "logo", IdxTok[i], Regions[i].type>>

\* the crop tool writes its output exactly when it exits zero
CropWrites(out) == out = "ok"

\* the work items of one page, in region order
PageItems(page) == [i \in 1..Len(Regions) |-> <<page, i>>]

----------------------------------------------------------------------------
(* optimize_logos *)
sizes == << [size |-> 1000, suffix |-> "large"],
            [size |-> 500, suffix |-> "medium"],
            [size |-> 200, suffix |-> "small"] >>

\* the resize calls of one processed file, in table order
FileItems(f) == [k \in 1..Len(sizes) |-> <<f, k>>]

\* f"{logo_file.stem}_{suffix}.png"
ResizeName(stem, k) == Append(stem, sizes[k].suffix)

----------------------------------------------------------------------------
(* create_white_versions *)
\* glob("*_large.png")
IsLarge(name) == Last(name) = "large"

\* stem.replace('_large', '')
StripLarge(stem) == SelectSeq(stem, LAMBDA t : t # "large")

\* f"{logo_file.stem.replace('_large', '')}_white_large.png"
WhiteName(stem) == StripLarge(stem) \o <<"white", "large">>

Invert(c) == [c EXCEPT !.inv = ~c.inv]

----------------------------------------------------------------------------
(* generate_web_assets *)
\* glob("*<tok>*large.png")
GlobTokLarge(name, tok) ==
  /\ Last(name) = "large"
  /\ \E i \in 1..(Len(name) - 1) : name[i] = tok

Matches(tok) == {n \in DOMAIN final : GlobTokLarge(n, tok)}

NoMatch == <<>>

\* list(glob(...))[0] : any match can be first in the listing; NoMatch if empty
First(S) == IF S = {} THEN {NoMatch} ELSE S

Publish(img, target, src) ==
  IF src = NoMatch THEN img ELSE Put(img, target, final[src])

Record(cp, target, src) ==
  IF src = NoMatch THEN cp ELSE Put(cp, target, src)

----------------------------------------------------------------------------
FS == [dirs |-> dirs, pages |-> pages, processed |-> processed,
       final |-> final, images |-> images]

InitExtract ==
  /\ pdfExists \in BOOLEAN
  /\ dirs = FALSE
  /\ pages = {}
  /\ processed = EmptyMap
  /\ final = EmptyMap
  /\ images = EmptyMap
  /\ pc = "idle"
  /\ result = "none"
  /\ runs = 1
  /\ faults = 0
  /\ tried = <<>>
  /\ logo_regions = {}
  /\ stages = {}
  /\ cropRes = EmptyMap
  /\ resizeRes = EmptyMap
  /\ invRes = EmptyMap
  /\ copied = EmptyMap
  /\ snap = [dirs |-> FALSE, pages |-> {}, processed |-> EmptyMap,
             final |-> EmptyMap, images |-> EmptyMap]
  /\ runClean = TRUE
  /\ prevClean = FALSE

\* no html file is being rewritten
ReplIdle ==
  /\ htmlExists = FALSE
  /\ html = <<>>
  /\ lastOp = "none"
  /\ prevOp = "none"
  /\ lastRes = FALSE
  /\ wrote = FALSE
  /\ prevWrote = FALSE
  /\ beforeExists = FALSE
  /\ before = <<>>

\* no stylesheet is being updated
CssIdle ==
  /\ cssExists = FALSE
  /\ css = <<>>
  /\ cssOp = "none"
  /\ cssWrote = FALSE
  /\ cssBefore = <<>>
  /\ cssOps = 0

history == <<tried, stages, cropRes, resizeRes, invRes, copied>>

\* LogoExtractor.__init__
Construct ==
  /\ pc = "idle"
  /\ dirs' = TRUE
  /\ pc' = "constructed"
  /\ UNCHANGED <<replVars, cssVars, pdfExists, pages, processed, final, images, result, runs,
                 faults, logo_regions, history, snap, runClean, prevClean>>

\* run_extraction, up to the call of extract_pdf_pages
RunExtraction ==
  /\ pc = "constructed"
  /\ IF pdfExists
       THEN /\ pc' = "extract"
            /\ result' = result
       ELSE /\ pc' = "done"
            /\ result' = "False"
  /\ UNCHANGED <<replVars, cssVars, pdfExists, dirs, pages, processed, final, images, runs,
                 faults, logo_regions, history, snap, runClean, prevClean>>

\* one iteration of the loop of extract_pdf_pages, and its return
TryMethod ==
  /\ pc = "extract"
  /\ Len(tried) < Len(methods)
  /\ LET m == methods[Len(tried) + 1] IN
     \E out \in MethodOuts(m) :
       /\ tried' = Append(tried, [method |-> m, out |-> out])
       /\ runClean' = (runClean /\ (m = "preview" \/ out = "ok"))
       /\ IF out = "ok"
            THEN /\ pages' = pages \cup DocPages
                 /\ pc' = AfterExtract(TRUE)
                 /\ result' = result
            ELSE /\ pages' = pages
                 /\ IF Len(tried') < Len(methods)
                      THEN pc' = "extract" /\ result' = result
                      ELSE IF AfterExtract(FALSE) = "return_false"
                             THEN pc' = "done" /\ result' = "False"
                             ELSE pc' = AfterExtract(FALSE) /\ result' = result
  /\ UNCHANGED <<replVars, cssVars, pdfExists, dirs, processed, final, images, runs, faults,
                 logo_regions, stages, cropRes, resizeRes, invRes, copied, snap,
                 prevClean>>

\* detect_logo_regions: one entry per file of pages/
DetectLogoRegions ==
  /\ pc = "detect"
  /\ stages' = stages \cup {"detect_logo_regions"}
  /\ logo_regions' = pages
  /\ pc' = "crop"
  /\ UNCHANGED <<replVars, cssVars, pdfExists, dirs, pages, processed, final, images, result,
                 runs, faults, tried, cropRes, resizeRes, invRes, copied,
                 snap, runClean, prevClean>>

\* crop_logos: one crop call per region of every page
CropLogos ==
  /\ pc = "crop"
  /\ stages' = stages \cup {"crop_logos"}
  /\ \E res \in LoopRuns({PageItems(p) : p \in logo_regions}, MaxFaults - faults) :
       /\ cropRes' = res
       /\ faults' = faults + Failed(res)
       /\ runClean' = (runClean /\ Failed(res) = 0)
       /\ LET W == {it \in DOMAIN res : CropWrites(res[it])} IN
          processed' = WriteAll(processed,
            [n \in {CropName(it[1], it[2]) : it \in W} |->
               LET it == CHOOSE x \in W : CropName(x[1], x[2]) = n
               IN [page |-> it[1], region |-> it[2]]])
       /\ IF Escaped(res)
            THEN pc' = "done" /\ result' = "raised"
            ELSE pc' = "optimize" /\ result' = result
  /\ UNCHANGED <<replVars, cssVars, pdfExists, dirs, pages, final, images, runs, tried,
                 logo_regions, resizeRes, invRes, copied, snap, prevClean>>

\* optimize_logos: one resize call per size for every file of processed/
OptimizeLogos ==
  /\ pc = "optimize"
  /\ stages' = stages \cup {"optimize_logos"}
  /\ \E res \in LoopRuns({FileItems(f) : f \in DOMAIN processed}, MaxFaults - faults) :
       /\ resizeRes' = res
       /\ faults' = faults + Failed(res)
       /\ runClean' = (runClean /\ Failed(res) = 0)
       /\ LET W == {it \in DOMAIN res : res[it] = "ok"} IN
          final' = WriteAll(final,
            [n \in {ResizeName(it[1], it[2]) : it \in W} |->
               LET it == CHOOSE x \in W : ResizeName(x[1], x[2]) = n
               IN [page |-> processed[it[1]].page,
                   region |-> processed[it[1]].region,
                   size |-> sizes[it[2]].suffix,
                   inv |-> FALSE]])
       /\ IF Escaped(res)
            THEN pc' = "done" /\ result' = "raised"
            ELSE pc' = "white" /\ result' = result
  /\ UNCHANGED <<replVars, cssVars, pdfExists, dirs, pages, processed, images, runs, tried,
                 logo_regions, cropRes, invRes, copied, snap, prevClean>>

\* create_white_versions: one invert call for every final/*_large.png
CreateWhiteVersions ==
  /\ pc = "white"
  /\ stages' = stages \cup {"create_white_versions"}
  /\ \E res \in LoopRuns({<<f>> : f \in {n \in DOMAIN final : IsLarge(n)}},
                         MaxFaults - faults) :
       /\ invRes' = res
       /\ faults' = faults + Failed(res)
       /\ runClean' = (runClean /\ Failed(res) = 0)
       /\ LET W == {f \in DOMAIN res : res[f] = "ok"} IN
          final' = WriteAll(final,
            [n \in {WhiteName(f) : f \in W} |->
               Invert(final[CHOOSE f \in W : WhiteName(f) = n])])
       /\ IF Escaped(res)
            THEN pc' = "done" /\ result' = "raised"
            ELSE pc' = "publish" /\ result' = result
  /\ UNCHANGED <<replVars, cssVars, pdfExists, dirs, pages, processed, images, runs, tried,
                 logo_regions, cropRes, resizeRes, copied, snap, prevClean>>

\* generate_web_assets, and run_extraction returns True
GenerateWebAssets ==
  /\ pc = "publish"
  /\ stages' = stages \cup {"generate_web_assets"}
  /\ \E main \in First(Matches("main_logo")) :
     \E white \in First(Matches("white")) :
     \E icon \in First(Matches("icon")) :
       /\ images' = Publish(Publish(Publish(images, "client-logo.png", main),
                                    "client-logo-white.png", white),
                            "client-icon.png", icon)
       /\ copied' = Record(Record(Record(copied, "client-logo.png", main),
                                  "client-logo-white.png", white),
                           "client-icon.png", icon)
  /\ pc' = "done"
  /\ result' = "True"
  /\ UNCHANGED <<replVars, cssVars, pdfExists, dirs, pages, processed, final, runs, faults,
                 tried, logo_regions, cropRes, resizeRes, invRes, snap,
                 runClean, prevClean>>

\* the process has ended; the script is started again on the same tree
NewRun ==
  /\ pc = "done"
  /\ runs < MaxRuns
  /\ runs' = runs + 1
  /\ pc' = "idle"
  /\ result' = "none"
  /\ snap' = FS
  /\ prevClean' = (result = "True" /\ runClean)
  /\ runClean' = TRUE
  /\ tried' = <<>>
  /\ stages' = {}
  /\ cropRes' = EmptyMap
  /\ resizeRes' = EmptyMap
  /\ invRes' = EmptyMap
  /\ copied' = EmptyMap
  /\ UNCHANGED <<replVars, cssVars, pdfExists, dirs, pages, processed, final, images, faults,
                 logo_regions>>

\* the steps of one process: LogoExtractor(pdf_path).run_extraction()
NextRun ==
  \/ Construct
  \/ RunExtraction
  \/ TryMethod
  \/ DetectLogoRegions
  \/ CropLogos
  \/ OptimizeLogos
  \/ CreateWhiteVersions
  \/ GenerateWebAssets

NextExtract ==
  \/ NextRun
  \/ NewRun

\* a fresh checkout: no output tree yet, and no html file being rewritten
Init == InitExtract /\ ReplIdle /\ CssIdle

\* the script run up to MaxRuns times, one process after the other
Spec == Init /\ [][NextExtract]_vars

\* a single process, started on the fresh checkout
SpecRun == Init /\ [][NextRun]_vars

----------------------------------------------------------------------------
(* Properties of the extraction pipeline *)

AllStages == {"detect_logo_regions", "crop_logos", "optimize_logos",
              "create_white_versions", "generate_web_assets"}

Tokens(name) == {name[k] : k \in 1..Len(name)}

\* the files of final/ whose name starts with the processed stem of a region
DerivedFrom(item) ==
  {n \in DOMAIN final : Len(n) > 4 /\ SubSeq(n, 1, 4) = CropName(item[1], item[2])}

Resized(item) == {ResizeName(CropName(item[1], item[2]), k) : k \in 1..Len(sizes)}

LargeOf(item) == Append(CropName(item[1], item[2]), "large")

WhiteLargeOf(item) == CropName(item[1], item[2]) \o <<"white", "large">>

\* C1: extract_pdf_pages invokes the strategies strictly in the order
\* qlmanage, sips, preview; a strategy that returned success is the last one
\* invoked in the run and ends the loop; a strategy that raised is followed by
\* the next strategy in order (the loop goes on, the run is not aborted).
C1_StrategyOrder ==
  /\ Len(tried) <= 3
  /\ \A k \in 1..Len(tried) :
       /\ tried[k].method = <<"qlmanage", "sips", "preview">>[k]
       /\ tried[k].out = "ok" => (k = Len(tried) /\ pc # "extract")
       /\ tried[k].out = "raise" => (k < Len(tried) \/ pc = "extract")

\* qlmanage raised, sips was tried next and succeeded, preview was never
\* invoked, and the run went on to its end
C1_Witness ==
  /\ pc = "done"
  /\ result = "True"
  /\ Len(tried) = 2
  /\ tried[1].out = "raise"
  /\ tried[2].out = "ok"

\* C2: when every strategy fails (non-zero exit status or raise), the run
\* returns False and no later stage is executed; and a run on an existing
\* source document returns False only in that case.
C2_ExtractionFatal ==
  /\ (pdfExists /\ Len(tried) = 3 /\ \A k \in 1..3 : tried[k].out # "ok")
       => (pc = "done" /\ result = "False" /\ stages = {})
  /\ (pdfExists /\ result = "False")
       => (Len(tried) = 3 /\ \A k \in 1..3 : tried[k].out # "ok")

\* a run in which qlmanage exited non-zero, sips raised and preview returned
\* False
C2_Witness ==
  /\ pdfExists
  /\ pc = "done"
  /\ result = "False"
  /\ Len(tried) = 3
  /\ tried[1].out = "fail"
  /\ tried[2].out = "raise"

\* C3: when the source document does not exist, constructing the extractor
\* and calling run_extraction returns False, invokes no tool and no stage,
\* and leaves the filesystem exactly as it was before the run.
C3_MissingSourceWritesNothing ==
  (~pdfExists /\ pc = "done")
    => (result = "False" /\ tried = <<>> /\ stages = {} /\ FS = snap)

\* C4: a second run in which every tool succeeds, after a first run in which
\* every tool succeeded, leaves the file names of pages/, processed/ and
\* final/ and the published assets as the first run left them, and no file
\* name carries the white marker twice.
C4_Idempotent ==
  (pc = "done" /\ result = "True" /\ runClean /\ prevClean)
    => /\ pages = snap.pages
       /\ DOMAIN processed = DOMAIN snap.processed
       /\ DOMAIN final = DOMAIN snap.final
       /\ images = snap.images
       /\ \A n \in DOMAIN final :
            Cardinality({k \in 1..Len(n) : n[k] = "white"}) <= 1

\* C5: at the end of a completed run, a region whose crop, whose three resize
\* calls and whose invert calls all succeeded in that run has in final/
\* exactly its three resized files plus at most its one inverted file
\* {processed_stem}_white_large.png, and no other file derived from it.
C5_VariantFamily ==
  (pc = "done" /\ result = "True") =>
    \A item \in DOMAIN cropRes :
      ( /\ cropRes[item] = "ok"
        /\ \A k \in 1..Len(sizes) :
             /\ <<CropName(item[1], item[2]), k>> \in DOMAIN resizeRes
             /\ resizeRes[<<CropName(item[1], item[2]), k>>] = "ok"
        /\ LargeOf(item) \in DOMAIN invRes
        /\ \A n \in DOMAIN invRes :
             SubSeq(n, 1, 4) = CropName(item[1], item[2]) => invRes[n] = "ok" )
      => /\ Resized(item) \subseteq DerivedFrom(item)
         /\ DerivedFrom(item) \subseteq Resized(item) \cup {WhiteLargeOf(item)}

\* C6: once a strategy has succeeded, no failure of a crop, resize or invert
\* call (non-zero exit status or raise) aborts the run: every stage is
\* executed and run_extraction returns True.
C6_NeverAborts ==
  (pc = "done" /\ \E k \in 1..Len(tried) : tried[k].out = "ok")
    => (result = "True" /\ stages = AllStages)

\* C7: at the end of a run in which the crop failed for one region and
\* succeeded for another region of the same page, final/ holds no file
\* derived from the failing region and holds the three resized files and the
\* inverted large file of the succeeding region.
C7_FailingRegionContributesNothing ==
  pc = "done" =>
    \A bad \in DOMAIN cropRes : \A good \in DOMAIN cropRes :
      (bad[1] = good[1] /\ cropRes[bad] # "ok" /\ cropRes[good] = "ok")
        => /\ DerivedFrom(bad) = {}
           /\ Resized(good) \cup {WhiteLargeOf(good)} \subseteq DOMAIN final

\* C8: in a completed run over a one-page document, a white-logo file is
\* published only if the invert call on the main logo's large variant
\* produced a file in that run; when every crop and resize succeeded, the
\* main-logo file and the icon file are published.
C8_WhiteOnlyFromMain ==
  (pc = "done" /\ result = "True" /\ Cardinality(logo_regions) = 1)
    => \A p \in logo_regions :
         /\ "client-logo-white.png" \in DOMAIN copied
              => (LargeOf(<<p, 1>>) \in DOMAIN invRes
                  /\ invRes[LargeOf(<<p, 1>>)] = "ok")
         /\ ((\A it \in DOMAIN cropRes : cropRes[it] = "ok")
             /\ (\A it \in DOMAIN resizeRes : resizeRes[it] = "ok"))
              => {"client-logo.png", "client-icon.png"} \subseteq DOMAIN copied

\* C10: the file copied to images/client-logo.png is a non-inverted large
\* variant of a main_logo region, and the file copied to
\* images/client-icon.png a non-inverted large variant of an icon region:
\* a file carrying the white marker is never published under either path.
C10_PublishedNotInverted ==
  /\ "client-logo.png" \in DOMAIN copied
       => ("white" \notin Tokens(copied["client-logo.png"])
           /\ "main_logo" \in Tokens(copied["client-logo.png"])
           /\ IsLarge(copied["client-logo.png"]))
  /\ "client-icon.png" \in DOMAIN copied
       => ("white" \notin Tokens(copied["client-icon.png"])
           /\ "icon" \in Tokens(copied["client-icon.png"])
           /\ IsLarge(copied["client-icon.png"]))

\* the content of a file of final/ is determined by its name (a name with an
\* odd number of white markers is inverted), whatever the iteration order
ContentByName ==
  \A n \in DOMAIN final :
    /\ final[n].size = Last(n)
    /\ final[n].page = n[1]
    /\ IdxTok[final[n].region] = n[3]
    /\ final[n].inv = (Cardinality({k \in 1..Len(n) : n[k] = "white"}) % 2 = 1)

----------------------------------------------------------------------------
(* replace_logos_in_file of LogoReplacer and HardFeelingsLogoReplacer.      *)
(* A file is a sequence of characters; the file names below are spelled out *)
(* character by character so that str.replace acts on the text.             *)

MaxFrags == 3     \* fragments an html file is made of

Thali == <<"t", "h", "a", "l", "i">>
Client == <<"c", "l", "i", "e", "n", "t">>
HardFeelings == <<"h", "a", "r", "d", "-", "f", "e", "e", "l", "i", "n", "g", "s">>
DashLogo == <<"-", "l", "o", "g", "o">>
DashWhite == <<"-", "w", "h", "i", "t", "e">>
DotSvg == <<".", "s", "v", "g">>
DotPng == <<".", "p", "n", "g">>

ThaliLogoSvg == Thali \o DashLogo \o DotSvg
ThaliLogoWhiteSvg == Thali \o DashLogo \o DashWhite \o DotSvg
ClientLogoPng == Client \o DashLogo \o DotPng
ClientLogoWhitePng == Client \o DashLogo \o DashWhite \o DotPng
HardFeelingsLogoPng == HardFeelings \o DashLogo \o DotPng
HardFeelingsLogoWhitePng == HardFeelings \o DashLogo \o DashWhite \o DotPng

\* LogoReplacer.logo_replacements, in insertion order
LogoReplacer_logo_replacements ==
  << <<ThaliLogoSvg, ClientLogoPng>>,
     <<ThaliLogoWhiteSvg, ClientLogoWhitePng>> >>

\* logo_replacements of HardFeelingsLogoReplacer.replace_logos_in_file
HardFeelings_logo_replacements ==
  << <<ClientLogoPng, HardFeelingsLogoPng>>,
     <<ClientLogoWhitePng, HardFeelingsLogoWhitePng>>,
     <<ThaliLogoSvg, HardFeelingsLogoPng>>,
     <<ThaliLogoWhiteSvg, HardFeelingsLogoWhitePng>> >>

Table(op) == IF op = "LogoReplacer" THEN LogoReplacer_logo_replacements
             ELSE HardFeelings_logo_replacements

StartsWith(s, t) == Len(s) >= Len(t) /\ SubSeq(s, 1, Len(t)) = t

\* faulty variant, for sensitivity: only the first occurrence is replaced (str.replace(old, new, 1))
RECURSIVE Replace_first(_, _, _)
Replace_first(s, old, new) ==
  IF Len(s) < Len(old) THEN s
  ELSE IF StartsWith(s, old)
         THEN new \o SubSeq(s, Len(old) + 1, Len(s))
         ELSE <<Head(s)>> \o Replace_first(Tail(s), old, new)

\* str.replace(old, new): every non-overlapping occurrence, left to right
RECURSIVE Replace(_, _, _)
Replace(s, old, new) ==
  IF Len(s) < Len(old) THEN s
  ELSE IF StartsWith(s, old)
         THEN new \o Replace(SubSeq(s, Len(old) + 1, Len(s)), old, new)
         ELSE <<Head(s)>> \o Replace(Tail(s), old, new)

\* for old_logo, new_logo in logo_replacements.items():
\*     content = content.replace(old_logo, new_logo)
RECURSIVE Substitute(_, _)
Substitute(content, table) ==
  IF table = <<>> THEN content
  ELSE Substitute(Replace(content, Head(table)[1], Head(table)[2]), Tail(table))

\* the text fragments the files of the site are made of: the file names of
\* both tables, their parts, and other text
Frags == { ThaliLogoSvg, ThaliLogoWhiteSvg, ClientLogoPng, ClientLogoWhitePng,
           Thali \o DashLogo, Client \o DashLogo, DashWhite, DotSvg, DotPng,
           <<"x">> }

RECURSIVE Texts(_)
Texts(n) == IF n = 0 THEN {<<>>}
            ELSE Texts(n - 1) \cup {t \o f : t \in Texts(n - 1), f \in Frags}

InitReplace ==
  /\ htmlExists \in BOOLEAN
  /\ html \in IF htmlExists THEN Texts(MaxFrags) ELSE {<<>>}
  /\ lastOp = "none"
  /\ prevOp = "none"
  /\ lastRes = FALSE
  /\ wrote = FALSE
  /\ prevWrote = FALSE
  /\ beforeExists = htmlExists
  /\ before = html

\* no extraction is running
ExtractIdle ==
  /\ pdfExists = FALSE
  /\ dirs = FALSE
  /\ pages = {}
  /\ processed = EmptyMap
  /\ final = EmptyMap
  /\ images = EmptyMap
  /\ pc = "idle"
  /\ result = "none"
  /\ runs = 1
  /\ faults = 0
  /\ tried = <<>>
  /\ logo_regions = {}
  /\ stages = {}
  /\ cropRes = EmptyMap
  /\ resizeRes = EmptyMap
  /\ invRes = EmptyMap
  /\ copied = EmptyMap
  /\ snap = [dirs |-> FALSE, pages |-> {}, processed |-> EmptyMap,
             final |-> EmptyMap, images |-> EmptyMap]
  /\ runClean = TRUE
  /\ prevClean = FALSE

\* replace_logos_in_file(file_path) with the table of replacer op
ReplaceLogosInFile(op) ==
  /\ prevOp' = lastOp
  /\ prevWrote' = wrote
  /\ lastOp' = op
  /\ beforeExists' = htmlExists
  /\ before' = html
  /\ htmlExists' = htmlExists
  /\ IF ~htmlExists
       THEN /\ html' = html
            /\ wrote' = FALSE
            /\ lastRes' = FALSE
       ELSE LET original_content == html
                content == Substitute(html, Table(op))
            IN IF content # original_content
                 THEN /\ html' = content
                      /\ wrote' = TRUE
                      /\ lastRes' = TRUE
                 ELSE /\ html' = html
                      /\ wrote' = FALSE
                      /\ lastRes' = FALSE
  /\ UNCHANGED <<extractVars, cssVars>>

LogoReplacer_replace_logos_in_file == ReplaceLogosInFile("LogoReplacer")

HardFeelingsLogoReplacer_replace_logos_in_file ==
  ReplaceLogosInFile("HardFeelingsLogoReplacer")

NextReplace ==
  \/ LogoReplacer_replace_logos_in_file
  \/ HardFeelingsLogoReplacer_replace_logos_in_file

\* an html file of the site, or none at that path; no extraction running
InitR == InitReplace /\ ExtractIdle /\ CssIdle

SpecReplace == InitR /\ [][NextReplace]_vars

Occurs(s, t) == \E i \in 1..(Len(s) - Len(t) + 1) : SubSeq(s, i, i + Len(t) - 1) = t

OldTokens(op) == {Table(op)[k][1] : k \in 1..Len(Table(op))}

\* C9: replace_logos_in_file of either replacer writes the file exactly when
\* the substituted content differs from the content read and returns True
\* exactly then; afterwards no old file name of its table occurs in the file,
\* so applying the same replacer again writes nothing and returns False; a
\* file that does not exist stays absent and the result is False.
C9_WriteOnlyIfChanged ==
  lastOp # "none" =>
    /\ ~beforeExists => (~htmlExists /\ ~wrote /\ lastRes = FALSE)
    /\ beforeExists =>
         /\ htmlExists
         /\ wrote = (Substitute(before, Table(lastOp)) # before)
         /\ html = IF wrote THEN Substitute(before, Table(lastOp)) ELSE before
         /\ lastRes = wrote
         /\ \A t \in OldTokens(lastOp) : ~Occurs(html, t)
    /\ prevOp = lastOp => (~wrote /\ lastRes = FALSE /\ html = before)

\* a replacer rewrote the file, and its second application left it alone
C9_Witness ==
  /\ lastOp # "none"
  /\ prevOp = lastOp
  /\ prevWrote
  /\ ~wrote
  /\ htmlExists

----------------------------------------------------------------------------
(* update_css_styles of LogoReplacer and HardFeelingsLogoReplacer.          *)
(* The stylesheet is a sequence of characters; the headers of the blocks    *)
(* are spelled out character by character, the rules of a block are one     *)
(* element each (no header text occurs inside them).                        *)

MaxCssFrags == 2  \* fragments the stylesheet is made of at first
MaxCssOps == 3    \* invocations of update_css_styles over a behaviour

LogoStyles == <<" ", "L", "o", "g", "o", " ", "S", "t", "y", "l", "e", "s">>

\* "Client Logo Styles"
ClientLogoStyles == <<"C", "l", "i", "e", "n", "t">> \o LogoStyles

\* "Hard Feelings Tacos Logo Styles"
HardFeelingsTacosLogoStyles ==
  <<"H", "a", "r", "d", " ", "F", "e", "e", "l", "i", "n", "g", "s", " ",
    "T", "a", "c", "o", "s">> \o LogoStyles

CommentOf(text) == <<"/", "*", " ">> \o text \o <<" ", "*", "/">>

\* logo_css of LogoReplacer.update_css_styles
LogoReplacer_logo_css ==
  <<"\n">> \o CommentOf(ClientLogoStyles) \o <<"\n">>
    \o <<".nav-logo img, .logo-footer img { max-height: 60px; ... }">>
    \o <<"@media (max-width: 768px) { ... max-height: 50px; ... }">>

\* logo_css of HardFeelingsLogoReplacer.update_css_styles
HardFeelings_logo_css ==
  <<"\n">> \o CommentOf(HardFeelingsTacosLogoStyles) \o <<"\n">>
    \o <<".nav-logo img, .logo-footer img { max-height: 60px; ... }">>
    \o <<"@media (max-width: 768px) { ... max-height: 50px; ... }">>
    \o <<"/* Ensure logos maintain aspect ratio */">>
    \o <<".nav-logo img { height: auto; max-width: 200px; }">>
    \o <<".logo-footer img { height: auto; max-width: 150px; }">>

\* where text old first occurs in s
FirstAt(s, old) ==
  CHOOSE i \in 1..(Len(s) - Len(old) + 1) :
    /\ SubSeq(s, i, i + Len(old) - 1) = old
    /\ \A j \in 1..(i - 1) : SubSeq(s, j, j + Len(old) - 1) # old

\* str.replace(old, new) on a long text: as Replace, going from one
\* occurrence to the next
RECURSIVE ReplaceAll(_, _, _)
ReplaceAll(s, old, new) ==
  IF ~Occurs(s, old) THEN s
  ELSE LET i == FirstAt(s, old) IN
       SubSeq(s, 1, i - 1) \o new
         \o ReplaceAll(SubSeq(s, i + Len(old), Len(s)), old, new)

\* LogoReplacer.update_css_styles, from the content read to the content left
\* in the file: the block is appended if "Client Logo Styles" is not there
LogoReplacer_update(content) ==
  IF ~Occurs(content, ClientLogoStyles)
    THEN content \o LogoReplacer_logo_css
    ELSE content

\* it writes only in the branch that appends
LogoReplacer_writes(content) == ~Occurs(content, ClientLogoStyles)

\* HardFeelingsLogoReplacer.update_css_styles: the client header is renamed
\* if it is there, else the block is appended; the file is written either way
HardFeelings_update(content) ==
  IF Occurs(content, ClientLogoStyles)
    THEN ReplaceAll(ReplaceAll(content, CommentOf(ClientLogoStyles),
                               CommentOf(HardFeelingsTacosLogoStyles)),
                    ClientLogoStyles, HardFeelingsTacosLogoStyles)
    ELSE content \o HardFeelings_logo_css

\* what the site's stylesheet is made of at first: other rules, the blocks
\* left by earlier runs of either script, the header text outside a comment
CssFrags == { <<"body { margin: 0; }">>, LogoReplacer_logo_css,
              HardFeelings_logo_css, ClientLogoStyles }

RECURSIVE CssTexts(_)
CssTexts(n) == IF n = 0 THEN {<<>>}
               ELSE CssTexts(n - 1) \cup {t \o f : t \in CssTexts(n - 1), f \in CssFrags}

InitCss ==
  /\ cssExists \in BOOLEAN
  /\ css \in IF cssExists THEN CssTexts(MaxCssFrags) ELSE {<<>>}
  /\ cssOp = "none"
  /\ cssWrote = FALSE
  /\ cssBefore = css
  /\ cssOps = 0

\* LogoReplacer.update_css_styles
LogoReplacer_update_css_styles ==
  /\ cssOps < MaxCssOps
  /\ cssOps' = cssOps + 1
  /\ cssOp' = "LogoReplacer"
  /\ cssBefore' = css
  /\ cssExists' = cssExists
  /\ IF ~cssExists
       THEN css' = css /\ cssWrote' = FALSE
       ELSE css' = LogoReplacer_update(css) /\ cssWrote' = LogoReplacer_writes(css)
  /\ UNCHANGED <<extractVars, replVars>>

\* HardFeelingsLogoReplacer.update_css_styles
HardFeelingsLogoReplacer_update_css_styles ==
  /\ cssOps < MaxCssOps
  /\ cssOps' = cssOps + 1
  /\ cssOp' = "HardFeelingsLogoReplacer"
  /\ cssBefore' = css
  /\ cssExists' = cssExists
  /\ IF ~cssExists
       THEN css' = css /\ cssWrote' = FALSE
       ELSE css' = HardFeelings_update(css) /\ cssWrote' = TRUE
  /\ UNCHANGED <<extractVars, replVars>>

NextCss ==
  \/ LogoReplacer_update_css_styles
  \/ HardFeelingsLogoReplacer_update_css_styles

\* the stylesheet of the site, or none at that path; nothing else running
InitC == InitCss /\ ExtractIdle /\ ReplIdle

SpecCss == InitC /\ [][NextCss]_vars

\* number of places where text t starts in s
Count(s, t) ==
  Cardinality({i \in 1..(Len(s) - Len(t) + 1) : SubSeq(s, i, i + Len(t) - 1) = t})

\* the logo-styles blocks of a stylesheet, counted by their headers
Blocks(s) == Count(s, ClientLogoStyles) + Count(s, HardFeelingsTacosLogoStyles)

\* C11: an invocation of update_css_styles of either replacer on a
\* stylesheet that already holds a logo-styles block (headed 'Client Logo
\* Styles' or 'Hard Feelings Tacos Logo Styles') appends no further block,
\* and on a stylesheet without one it leaves at most one.
C11_AtMostOneBlock ==
  cssOp # "none" =>
    /\ Blocks(cssBefore) >= 1 => Blocks(css) = Blocks(cssBefore)
    /\ Blocks(cssBefore) = 0 => Blocks(css) <= 1

====
